---- MODULE Spec2Model ----
(***************************************************************************)
(* A model of the WorkElate planning agent (agent.py): the plan extraction *)
(* loop of planner, and the decision store kept in the two SQLite tables   *)
(* decisions and tasks.                                                    *)
(*                                                                         *)
(* A Python str is modelled as a sequence of one-character strings, so     *)
(* that strip, split, join, slicing and LIKE are computed character by     *)
(* character as the interpreter and SQLite compute them.                   *)
(***************************************************************************)
EXTENDS Integers, Sequences, FiniteSets, TLC

VARIABLES
    decisions,  \* table decisions: a set of rows, keyed by id
    tasks,      \* table tasks: a set of rows, keyed by id
    now,        \* the clock datetime.now() reads; one tick per planner call
    issued,     \* history: the ids given to decision rows, in creation order
    op,         \* the operation that ran last
    arg,        \* its arguments
    ret         \* its return value

vars == <<decisions, tasks, now, issued, op, arg, ret>>

----------------------------------------------------------------------------
(* Program constants.                                                      *)

\* len(line) > 5
MinLineLen == 5
\* '.' in line[:10]
DotWindow == 10
\* len(step_text) > 10
MinStepLen == 10
\* if len(plan) >= 5: break
MaxSteps == 5
\* while len(plan) < 3
MinSteps == 3
\* task_input[:30]
FilterPrefix == 30
\* ORDER BY id DESC LIMIT 5
FilteredLimit == 5
\* ORDER BY id DESC LIMIT 10
UnfilteredLimit == 10

(* Bounds of the model.                                                    *)

\* planner calls in one behaviour
MaxPlans == 2
\* lines of a completion text drawn from LineKinds
MaxLines == 6

----------------------------------------------------------------------------
(* Characters and Python's str operations.                                 *)

NL == "\n"
Whitespace == {" ", "\t", "\n", "\r"}
Digits == {"0", "1", "2", "3", "4", "5", "6", "7", "8", "9"}
UpperCase ==
    <<"A", "B", "C", "D", "E", "F", "G", "H", "I", "J", "K", "L", "M",
      "N", "O", "P", "Q", "R", "S", "T", "U", "V", "W", "X", "Y", "Z">>
LowerCase ==
    <<"a", "b", "c", "d", "e", "f", "g", "h", "i", "j", "k", "l", "m",
      "n", "o", "p", "q", "r", "s", "t", "u", "v", "w", "x", "y", "z">>

Min(a, b) == IF a < b THEN a ELSE b

\* c.isdigit()
isdigit(c) == c \in Digits

\* s[:n]
Slice(s, n) == SubSeq(s, 1, Min(n, Len(s)))

\* c in s
Contains(c, s) == \E i \in 1..Len(s) : s[i] = c

\* s.lstrip() and s.rstrip(), then s.strip()
RECURSIVE lstrip(_)
lstrip(s) ==
    IF s # <<>> /\ Head(s) \in Whitespace THEN lstrip(Tail(s)) ELSE s

RECURSIVE rstrip(_)
rstrip(s) ==
    IF s # <<>> /\ s[Len(s)] \in Whitespace
    THEN rstrip(SubSeq(s, 1, Len(s) - 1))
    ELSE s

strip(s) == rstrip(lstrip(s))

\* The index of the first c in s at or after position i, 0 when there is none.
RECURSIVE Find(_, _, _)
Find(s, c, i) ==
    IF i > Len(s) THEN 0
    ELSE IF s[i] = c THEN i
    ELSE Find(s, c, i + 1)

\* s.split(c): the pieces between the occurrences of c; never empty.
RECURSIVE split(_, _)
split(s, c) ==
    LET k == Find(s, c, 1) IN
    IF k = 0 THEN <<s>>
    ELSE <<SubSeq(s, 1, k - 1)>> \o split(SubSeq(s, k + 1, Len(s)), c)

\* s.split(c, 1): at most one split, at the first c.
split1(s, c) ==
    LET k == Find(s, c, 1) IN
    IF k = 0 THEN <<s>>
    ELSE <<SubSeq(s, 1, k - 1), SubSeq(s, k + 1, Len(s))>>

\* c.join(parts)
RECURSIVE join(_, _)
join(c, parts) ==
    IF parts = <<>> THEN <<>>
    ELSE IF Len(parts) = 1 THEN parts[1]
    ELSE parts[1] \o <<c>> \o join(c, Tail(parts))

----------------------------------------------------------------------------
(* String literals.                                                        *)

\* "Review and validate implementation"
Filler ==
    <<"R", "e", "v", "i", "e", "w", " ", "a", "n", "d", " ", "v", "a", "l",
      "i", "d", "a", "t", "e", " ", "i", "m", "p", "l", "e", "m", "e", "n",
      "t", "a", "t", "i", "o", "n">>

\* "1. Set up cloud infra"
LineInfra ==
    <<"1", ".", " ", "S", "e", "t", " ", "u", "p", " ", "c", "l", "o", "u",
      "d", " ", "i", "n", "f", "r", "a">>

\* "2. Configure CI/CD"
LineCICD ==
    <<"2", ".", " ", "C", "o", "n", "f", "i", "g", "u", "r", "e", " ", "C",
      "I", "/", "C", "D">>

\* "3. Build dashboard UI"
LineUI ==
    <<"3", ".", " ", "B", "u", "i", "l", "d", " ", "d", "a", "s", "h", "b",
      "o", "a", "r", "d", " ", "U", "I">>

\* "4. Add auth"
LineAuth ==
    <<"4", ".", " ", "A", "d", "d", " ", "a", "u", "t", "h">>

\* "5. Deploy to staging"
LineDeploy ==
    <<"5", ".", " ", "D", "e", "p", "l", "o", "y", " ", "t", "o", " ", "s",
      "t", "a", "g", "i", "n", "g">>

\* "Sure, here's a plan:"
LineSure ==
    <<"S", "u", "r", "e", ",", " ", "h", "e", "r", "e", "'", "s", " ", "a",
      " ", "p", "l", "a", "n", ":">>

\* "1. Do the thing"
LineThing ==
    <<"1", ".", " ", "D", "o", " ", "t", "h", "e", " ", "t", "h", "i", "n",
      "g">>

\* "1. Design the schema"
LineSchema ==
    <<"1", ".", " ", "D", "e", "s", "i", "g", "n", " ", "t", "h", "e", " ",
      "s", "c", "h", "e", "m", "a">>

\* "  2. Write api | add tests\t"
LinePipe ==
    <<" ", " ", "2", ".", " ", "W", "r", "i", "t", "e", " ", "a", "p", "i",
      " ", "|", " ", "a", "d", "d", " ", "t", "e", "s", "t", "s", "\t">>

\* "3. abcdefghij"
LineTen ==
    <<"3", ".", " ", "a", "b", "c", "d", "e", "f", "g", "h", "i", "j">>

\* "123456789. klmnopqrstu"
LineEdge ==
    <<"1", "2", "3", "4", "5", "6", "7", "8", "9", ".", " ", "k", "l", "m",
      "n", "o", "p", "q", "r", "s", "t", "u">>

\* "1234567890. klmnopqrstu"
LineLate ==
    <<"1", "2", "3", "4", "5", "6", "7", "8", "9", "0", ".", " ", "k", "l",
      "m", "n", "o", "p", "q", "r", "s", "t", "u">>

\* "Note. this is a remark"
LineProse ==
    <<"N", "o", "t", "e", ".", " ", "t", "h", "i", "s", " ", "i", "s", " ",
      "a", " ", "r", "e", "m", "a", "r", "k">>

\* "1.1. Create the repo"
LineSub ==
    <<"1", ".", "1", ".", " ", "C", "r", "e", "a", "t", "e", " ", "t", "h",
      "e", " ", "r", "e", "p", "o">>

\* "2.. Deploy service"
LineDots ==
    <<"2", ".", ".", " ", "D", "e", "p", "l", "o", "y", " ", "s", "e", "r",
      "v", "i", "c", "e">>

\* "12345678901"
LineBare ==
    <<"1", "2", "3", "4", "5", "6", "7", "8", "9", "0", "1">>

\* "abc"
TaskAbc ==
    <<"a", "b", "c">>

\* "a_c"
TaskWild ==
    <<"a", "_", "c">>

\* "ABC"
TaskUpper ==
    <<"A", "B", "C">>

\* "zz"
FilterNone ==
    <<"z", "z">>

\* "Create onboarding plan for new engineering intern"
TaskIntern ==
    <<"C", "r", "e", "a", "t", "e", " ", "o", "n", "b", "o", "a", "r", "d",
      "i", "n", "g", " ", "p", "l", "a", "n", " ", "f", "o", "r", " ", "n",
      "e", "w", " ", "e", "n", "g", "i", "n", "e", "e", "r", "i", "n", "g",
      " ", "i", "n", "t", "e", "r", "n">>

\* "Create onboarding plan for new hires"
TaskHires ==
    <<"C", "r", "e", "a", "t", "e", " ", "o", "n", "b", "o", "a", "r", "d",
      "i", "n", "g", " ", "p", "l", "a", "n", " ", "f", "o", "r", " ", "n",
      "e", "w", " ", "h", "i", "r", "e", "s">>

----------------------------------------------------------------------------
(* planner: the extraction loop.                                           *)

\* StepOf without the test of the length of step_text.
StepOf_AnyText(raw) ==
    LET line == strip(raw) IN
    IF line # <<>> /\ isdigit(line[1]) /\ Len(line) > MinLineLen
    THEN IF Contains(".", Slice(line, DotWindow))
         THEN LET parts == split1(line, ".") IN
              IF Len(parts) > 1
              THEN LET step_text == strip(parts[2]) IN
                   IF step_text # <<>> THEN <<step_text>> ELSE <<>>
              ELSE <<>>
         ELSE <<>>
    ELSE <<>>

\* The step a line contributes: <<step_text>> when the line is accepted,
\* <<>> when it is skipped.
StepOf(raw) ==
    LET line == strip(raw) IN
    IF line # <<>> /\ isdigit(line[1]) /\ Len(line) > MinLineLen
    THEN IF Contains(".", Slice(line, DotWindow))
         THEN LET parts == split1(line, ".") IN
              IF Len(parts) > 1
              THEN LET step_text == strip(parts[2]) IN
                   IF step_text # <<>> /\ Len(step_text) > MinStepLen
                   THEN <<step_text>>
                   ELSE <<>>
              ELSE <<>>
         ELSE <<>>
    ELSE <<>>

\* LoopBreaks with > for >=.
LoopBreaks_Late(plan) == Len(plan) > MaxSteps

\* The break of the loop: taken once the plan holds MaxSteps steps.
LoopBreaks(plan) == Len(plan) >= MaxSteps

\* for line in lines[i:]: the plan when the loop ends or breaks.
RECURSIVE Scan(_, _, _)
Scan(lines, i, plan) ==
    IF i > Len(lines) THEN plan
    ELSE LET plan2 == plan \o StepOf(lines[i]) IN
         IF LoopBreaks(plan2) THEN plan2 ELSE Scan(lines, i + 1, plan2)

\* Pad filling up to MaxSteps instead of MinSteps.
RECURSIVE Pad_ToMax(_)
Pad_ToMax(plan) ==
    IF Len(plan) < MaxSteps THEN Pad_ToMax(Append(plan, Filler)) ELSE plan

\* while len(plan) < 3: plan.append(filler)
RECURSIVE Pad(_)
Pad(plan) ==
    IF Len(plan) < MinSteps THEN Pad(Append(plan, Filler)) ELSE plan

\* The plan planner builds from the content of the model's reply.
ExtractPlan(content) == Pad(Scan(split(strip(content), NL), 1, <<>>))

\* DecisionLabel with the count fixed at the minimum.
DecisionLabel_Fixed(plan) == <<"Plan Generated: ", MinSteps, " steps">>

\* f"Plan Generated: {len(plan)} steps"
DecisionLabel(plan) == <<"Plan Generated: ", Len(plan), " steps">>

\* f"Generated {len(plan)} actionable steps based on task requirements"
Reasoning(plan) ==
    <<"Generated ", Len(plan), " actionable steps based on task requirements">>

----------------------------------------------------------------------------
(* The decision store.                                                     *)

\* The rowid SQLite gives a new row of an INTEGER PRIMARY KEY table declared
\* without AUTOINCREMENT: one more than the largest rowid in the table.
NextRowid(table) ==
    IF table = {} THEN 1
    ELSE (CHOOSE m \in {r.id : r \in table} :
              \A r \in table : r.id <= m) + 1

\* INSERT OR REPLACE: rows that collide with the new row on a uniqueness
\* constraint are removed. The only one either table declares is the key id.
InsertOrReplace(table, row) == {r \in table : r.id # row.id} \cup {row}

save_decision(D, timestamp, task, decision, reasoning) ==
    D \cup {[id |-> NextRowid(D), timestamp |-> timestamp, task |-> task,
             decision |-> decision, reasoning |-> reasoning]}

save_full_plan(T, task, plan) ==
    InsertOrReplace(T, [id |-> NextRowid(T), task |-> task,
                        plan |-> join("|", plan), status |-> "planned"])

\* DELETE FROM decisions WHERE id = ?
DeleteDecisionRow(D, decision_id) == {r \in D : r.id # decision_id}

\* DELETE FROM tasks WHERE task = (SELECT task FROM decisions WHERE id = ?),
\* the subquery evaluated on the decisions table as it is when the statement
\* runs. A subquery that selects no row is NULL, and task = NULL is true of
\* no row.
DeleteTaskRows(T, D, decision_id) ==
    LET selected == {r.task : r \in {d \in D : d.id = decision_id}} IN
    {r \in T : r.task \notin selected}

\* An optional argument: None, or Some(value).
None == <<>>
Some(x) == <<x>>

\* if task_input: neither None nor the empty string
Truthy(task_input) == task_input # None /\ task_input[1] # <<>>

\* SQLite's LIKE folds the case of ASCII letters.
Fold(c) ==
    IF \E i \in 1..26 : UpperCase[i] = c
    THEN LowerCase[CHOOSE i \in 1..26 : UpperCase[i] = c]
    ELSE c

\* s[i:] LIKE pattern[j:]: % matches any run of characters, _ any one
\* character, any other character itself up to ASCII case.
RECURSIVE LikeFrom(_, _, _, _)
LikeFrom(s, i, pattern, j) ==
    IF j > Len(pattern) THEN i > Len(s)
    ELSE IF pattern[j] = "%"
         THEN \/ LikeFrom(s, i, pattern, j + 1)
              \/ i <= Len(s) /\ LikeFrom(s, i + 1, pattern, j)
         ELSE /\ i <= Len(s)
              /\ pattern[j] = "_" \/ Fold(pattern[j]) = Fold(s[i])
              /\ LikeFrom(s, i + 1, pattern, j + 1)

\* s LIKE pattern
Like(s, pattern) == LikeFrom(s, 1, pattern, 1)

\* f'%{task_input[:30]}%'
LikePattern(task_input) == <<"%">> \o Slice(task_input, FilterPrefix) \o <<"%">>

\* ORDER BY id DESC LIMIT n, each row as the dict the code builds from it.
RECURSIVE OrderByIdDesc(_, _)
OrderByIdDesc(rows, limit) ==
    IF rows = {} \/ limit = 0 THEN <<>>
    ELSE LET top == CHOOSE r \in rows : \A q \in rows : q.id <= r.id IN
         <<[task |-> top.task, decision |-> top.decision,
            reasoning |-> top.reasoning, timestamp |-> top.timestamp,
            id |-> top.id]>>
         \o OrderByIdDesc(rows \ {top}, limit - 1)

RecentDecisions(D, task_input) ==
    IF Truthy(task_input)
    THEN OrderByIdDesc({r \in D : Like(r.task, LikePattern(task_input[1]))},
                       FilteredLimit)
    ELSE OrderByIdDesc(D, UnfilteredLimit)

\* SELECT plan FROM tasks WHERE task = ? and fetchone(): the statement has
\* no ORDER BY, so which of several matching rows comes first is the
\* engine's choice; each is a possible result.
TaskPlans(T, task) ==
    LET rows == {r \in T : r.task = task} IN
    IF rows = {} THEN {<<>>} ELSE {split(r.plan, "|") : r \in rows}

----------------------------------------------------------------------------
(* Inputs.                                                                 *)

Join(lines) == join(NL, lines)

\* The reply of the SaaS dashboard scenario.
TextScenario == Join(<<LineInfra, LineCICD, LineUI, LineAuth, LineDeploy>>)
\* A preamble and one step that holds a '|'.
TextPipe == Join(<<LineSure, LinePipe>>)

Completions == {TextScenario, TextPipe}

Tasks == {TaskAbc, TaskWild, TaskIntern}

Filters ==
    {None, Some(<<>>), Some(TaskWild), Some(TaskUpper), Some(TaskHires),
     Some(FilterNone)}

Ids == 1..MaxPlans

\* The lines the bounded completion texts are built from: two accepted
\* lines, a numbered line whose text is one character short, and a line
\* with a '.' that does not start with a digit.
LineKinds == {LineSchema, LinePipe, LineTen, LineProse}

\* Lines at the edges of the tests of the loop.
EdgeLines ==
    {LineAuth, LineThing, LineEdge, LineLate, LineSub, LineDots, LineBare,
     LineSure, <<" ", "\t">>}

BoundedTexts ==
    {Join(ls) : ls \in UNION {[1..k -> LineKinds] : k \in 0..MaxLines}}
    \cup {TextScenario}
    \cup {Join(<<e>>) : e \in EdgeLines}
    \cup {Join(<<LineSchema, e, LinePipe>>) : e \in EdgeLines}
    \cup {Join(<<e, <<>>, LineSchema>>) : e \in EdgeLines}

----------------------------------------------------------------------------
(* The operations.                                                         *)

Init ==
    /\ decisions = {}
    /\ tasks = {}
    /\ now = 0
    /\ issued = <<>>
    /\ op = "init_db"
    /\ arg = <<>>
    /\ ret = <<>>

planner(task, content) ==
    LET plan == ExtractPlan(content) IN
    /\ now < MaxPlans
    /\ decisions' = save_decision(decisions, now, task, DecisionLabel(plan),
                                  Reasoning(plan))
    /\ tasks' = save_full_plan(tasks, task, plan)
    /\ now' = now + 1
    /\ issued' = Append(issued, NextRowid(decisions))
    /\ op' = "planner"
    /\ arg' = <<task, content>>
    /\ ret' = [plan |-> plan,
               decision_trace |-> <<[decision |-> "PLANNING COMPLETE",
                                     reasoning |-> Reasoning(plan)]>>]

delete_decision(decision_id) ==
    LET D == DeleteDecisionRow(decisions, decision_id) IN
    /\ decisions' = D
    /\ tasks' = DeleteTaskRows(tasks, D, decision_id)
    /\ op' = "delete_decision"
    /\ arg' = <<decision_id>>
    /\ ret' = <<>>
    /\ UNCHANGED <<now, issued>>

get_recent_decisions(task_input) ==
    /\ op' = "get_recent_decisions"
    /\ arg' = <<task_input>>
    /\ ret' = RecentDecisions(decisions, task_input)
    /\ UNCHANGED <<decisions, tasks, now, issued>>

get_task_plan(task) ==
    /\ op' = "get_task_plan"
    /\ arg' = <<task>>
    /\ ret' \in TaskPlans(tasks, task)
    /\ UNCHANGED <<decisions, tasks, now, issued>>

Plan == \E task \in Tasks, content \in Completions : planner(task, content)
Delete == \E decision_id \in Ids : delete_decision(decision_id)
Recent == \E task_input \in Filters : get_recent_decisions(task_input)
Lookup == \E task \in Tasks : get_task_plan(task)

Next == Plan \/ Delete \/ Recent \/ Lookup

Spec == Init /\ [][Next]_vars

\* The first planner call on a new database, on every bounded completion.
PlanFirst ==
    /\ decisions = {}
    /\ \E content \in BoundedTexts : planner(TaskAbc, content)

NextExtract == PlanFirst

SpecExtract == Init /\ [][NextExtract]_vars

----------------------------------------------------------------------------
(* The properties.                                                         *)

Max(a, b) == IF a > b THEN a ELSE b

\* The steps of the scenario's five lines.
\* "Set up cloud infra"
StepInfra ==
    <<"S", "e", "t", " ", "u", "p", " ", "c", "l", "o", "u", "d", " ", "i",
      "n", "f", "r", "a">>

\* "Configure CI/CD"
StepCICD ==
    <<"C", "o", "n", "f", "i", "g", "u", "r", "e", " ", "C", "I", "/", "C",
      "D">>

\* "Build dashboard UI"
StepUI ==
    <<"B", "u", "i", "l", "d", " ", "d", "a", "s", "h", "b", "o", "a", "r",
      "d", " ", "U", "I">>

\* "Add auth"
StepAuth ==
    <<"A", "d", "d", " ", "a", "u", "t", "h">>

\* "Deploy to staging"
StepDeploy ==
    <<"D", "e", "p", "l", "o", "y", " ", "t", "o", " ", "s", "t", "a", "g",
      "i", "n", "g">>

\* The state right after a planner call.
AfterPlanner == op = "planner"

\* The step from before a planner call to after it.
PlannerStep == op' = "planner" /\ now' = now + 1

\* A trimmed line is well formed when it starts with a decimal digit, has a
\* '.' among its first 10 characters, and its trimmed text after the first
\* '.' is longer than 10 characters.
FirstDot(t) == CHOOSE k \in 1..Len(t) :
                   t[k] = "." /\ \A j \in 1..(k - 1) : t[j] # "."
Suffix(l) == LET t == strip(l) IN strip(SubSeq(t, FirstDot(t) + 1, Len(t)))
WellFormed(l) ==
    LET t == strip(l) IN
    /\ t # <<>>
    /\ t[1] \in Digits
    /\ \E k \in 1..Min(10, Len(t)) : t[k] = "."
    /\ Len(Suffix(l)) > 10

\* W: the trimmed suffixes of the well-formed lines, in line order.
RECURSIVE Suffixes(_)
Suffixes(lines) ==
    IF lines = <<>> THEN <<>>
    ELSE (IF WellFormed(Head(lines)) THEN <<Suffix(Head(lines))>> ELSE <<>>)
         \o Suffixes(Tail(lines))
W(content) == Suffixes(split(content, NL))

RECURSIVE Fillers(_)
Fillers(n) == IF n <= 0 THEN <<>> ELSE <<Filler>> \o Fillers(n - 1)

\* C1: whatever the completion text, the plan planner returns has at least
\* 3 and at most 5 steps, and every step is a non-empty string.
C1_PlanLength ==
    AfterPlanner =>
        /\ Len(ret.plan) >= 3
        /\ Len(ret.plan) <= 5
        /\ \A i \in 1..Len(ret.plan) : ret.plan[i] # <<>>

\* A completion with more than 5 well-formed lines was cut to 5 steps.
C1_Witness ==
    AfterPlanner /\ Len(W(arg[2])) > 5 /\ Len(ret.plan) = 5

C5_ScenarioFiveSteps ==
    AfterPlanner /\ arg[2] = TextScenario =>
        ret.plan = <<StepInfra, StepCICD, StepUI, StepAuth, StepDeploy>>

\* C5, amended: the scenario's five lines yield four steps; "4. Add auth"
\* is skipped, its text being 8 characters long and so not longer than 10.
C5_ScenarioFourSteps ==
    AfterPlanner /\ arg[2] = TextScenario =>
        ret.plan = <<StepInfra, StepCICD, StepUI, StepDeploy>>

\* planner has run on the scenario's reply.
C5_Witness ==
    AfterPlanner /\ arg[2] = TextScenario /\ Len(ret.plan) = 4

\* C9: no step of the plan begins with a decimal digit or with a '.'.
C9_NoLeadingNumbering ==
    AfterPlanner =>
        \A i \in 1..Len(ret.plan) : ret.plan[i][1] \notin Digits \cup {"."}

\* C2: a second save_full_plan for a task replaces the first: the tasks
\* table holds at most one row for a task string, and get_task_plan returns
\* the steps of the plan written last (the row with the greatest id).
C2_SecondPlanReplaces ==
    \A t \in Tasks :
        LET rows == {r \in tasks : r.task = t} IN
        /\ Cardinality(rows) <= 1
        /\ op = "get_task_plan" /\ arg[1] = t /\ rows # {} =>
               LET last == CHOOSE r \in rows : \A q \in rows : q.id <= r.id
               IN  ret = split(last.plan, "|")

\* C3: delete_decision of an existing id removes the record with that id
\* and every tasks row of that record's task, so that get_task_plan of the
\* task is then the empty list.
C3_DeleteRemovesPlan ==
    [][op' = "delete_decision" =>
          \A d \in decisions :
              d.id = arg'[1] =>
                  /\ \A e \in decisions' : e.id # d.id
                  /\ \A r \in tasks' : r.task # d.task
                  /\ TaskPlans(tasks', d.task) = {<<>>}]_vars

\* C6: the ids given to decision records strictly increase in creation
\* order, deleted records included, so no id is given twice.
C6_IdsNeverReused ==
    \A i, j \in 1..Len(issued) : i < j => issued[i] < issued[j]

\* s holds p as a substring.
IsSubstring(p, s) ==
    \E i \in 0..(Len(s) - Len(p)) : SubSeq(s, i + 1, i + Len(p)) = p

\* C7: with a filter f, get_recent_decisions returns the at most 5
\* highest-id records whose task holds f[:30] as a substring, highest id
\* first; with no filter, the at most 10 highest-id records.
C7_RecentBySubstring ==
    op = "get_recent_decisions" =>
        ret = IF arg[1] # None
              THEN OrderByIdDesc(
                       {r \in decisions :
                            IsSubstring(Slice(arg[1][1], 30), r.task)}, 5)
              ELSE OrderByIdDesc(decisions, 10)

\* C8: a planner call adds exactly one decision record, with the input task
\* and the label "Plan Generated: n steps" for the n steps returned, leaves
\* every other decision record as it was, and writes one tasks row for the
\* task with status "planned".
C8_PlannerWritesOneDecision ==
    [][PlannerStep =>
          LET added == decisions' \ decisions
              written == tasks' \ tasks
          IN  /\ decisions \subseteq decisions'
              /\ Cardinality(added) = 1
              /\ \A r \in added :
                     /\ r.task = arg'[1]
                     /\ r.decision =
                            <<"Plan Generated: ", Len(ret'.plan), " steps">>
              /\ Cardinality(written) = 1
              /\ \A r \in written :
                     r.task = arg'[1] /\ r.status = "planned"]_vars

\* planner has returned 4 steps while another decision record is stored.
C8_Witness ==
    /\ AfterPlanner
    /\ Len(ret.plan) = 4
    /\ Cardinality(decisions) = 2
    /\ \E r \in decisions :
           r.decision = <<"Plan Generated: ", 4, " steps">> /\ r.task = arg[1]

\* C10: for a task with no tasks row yet, get_task_plan after the plan is
\* saved returns exactly the plan that planner returned.
C10_PlanRoundTrip ==
    [][PlannerStep /\ (\A r \in tasks : r.task # arg'[1]) =>
          TaskPlans(tasks', arg'[1]) = {ret'.plan}]_vars

====
